---- MODULE Spec2Model ----
(***************************************************************************)
(* Model of the diff engine of packages/diff-engine: the Myers line edit   *)
(* engine (myers.rs), the compute_diff pipeline with hunk assembly and     *)
(* statistics (diff.rs) and the streaming session (streaming.rs).          *)
(*                                                                         *)
(* Texts are sequences of characters over Chars; a line is a sequence of   *)
(* characters without "\n".  The alphabet holds no '\r', so the "\r\n"     *)
(* handling of str::lines() is outside the model.  Options other than      *)
(* context_lines and max_file_size keep the values under which they do     *)
(* nothing to the text or the hunks (ignore_whitespace = ignore_case =     *)
(* false, language = None, so preprocess_text and                          *)
(* apply_syntax_highlighting return their input).                          *)
(***************************************************************************)
EXTENDS Integers, Sequences, FiniteSets, TLC

\* ------------------------------------------------------------ bounds
\* longest text handed to compute_diff
MaxTextLen == 3
\* longest chunk handed to a streaming session
MaxChunkLen == 2
\* largest options.context_lines drawn besides the default
MaxContext == 1
\* largest options.max_file_size drawn (bytes)
MaxFileSize == 6
\* number of elements a Vec can grow to before the allocator gives up; the
\* real limit is isize::MAX bytes, any value above the longest edit script
\* of the model gives the same outcomes
AllocLimit == 16

\* ------------------------------------------------------------ text
NL == "\n"
Chars == {"a", "b", NL}

Texts(n) == UNION {[1..k -> Chars] : k \in 0..n}

Max(a, b) == IF a >= b THEN a ELSE b
Min(a, b) == IF a <= b THEN a ELSE b

\* usize::saturating_sub
SaturatingSub(a, b) == IF a >= b THEN a - b ELSE 0

\* `i as usize` for an i32 i.  TLC's integers are 32-bit, so the wrap of a
\* negative value is taken modulo 2^31 instead of 2^32 (or 2^64): what is kept
\* is that a negative i32 becomes an index above every length and every Vec
\* capacity.
UsizeMax == 2147483647
CastUsize(i) == IF i < 0 THEN UsizeMax + (i + 1) ELSE i

\* the pieces of two adjacent ranges: the last piece of the left range and
\* the first piece of the right range are one piece
MergePieces(l, r) ==
    SubSeq(l, 1, Len(l) - 1) \o << l[Len(l)] \o r[1] >> \o Tail(r)

\* lines() yields no line for an empty remainder after the last "\n"
DropLastEmpty(p) == IF p[Len(p)] = <<>> THEN SubSeq(p, 1, Len(p) - 1) ELSE p

\* the pieces of text[lo..hi] between its "\n" characters (k newlines, k+1
\* pieces).  The range is halved so that the depth of the evaluation grows
\* with the logarithm of the length: texts of more than ChunkSize lines are
\* split without exhausting the evaluator's stack.
RECURSIVE SplitFrom(_, _, _)
SplitFrom(text, lo, hi) ==
    IF lo > hi THEN << <<>> >>
    ELSE IF lo = hi
         THEN IF text[lo] = NL THEN << <<>>, <<>> >> ELSE << <<text[lo]>> >>
    ELSE MergePieces(SplitFrom(text, lo, (lo + hi) \div 2),
                     SplitFrom(text, (lo + hi) \div 2 + 1, hi))

\* str::lines(): split on "\n", the final line ending is optional
Lines(text) == DropLastEmpty(SplitFrom(text, 1, Len(text)))

\* [&str]::join("\n") over lines[lo..hi], halved like SplitFrom
RECURSIVE JoinRange(_, _, _)
JoinRange(lines, lo, hi) ==
    IF lo > hi THEN <<>>
    ELSE IF lo = hi THEN lines[lo]
    ELSE JoinRange(lines, lo, (lo + hi) \div 2) \o <<NL>>
         \o JoinRange(lines, (lo + hi) \div 2 + 1, hi)

Join(lines) == JoinRange(lines, 1, Len(lines))

\* A character that UTF-8 encodes in two bytes (U+00E9); every other
\* character of the model is ASCII, one byte.
EAcute == "e_acute"

\* str::len() of a line: its length in bytes
ByteLen(s) == Len(s) + Cardinality({i \in 1..Len(s) : s[i] = EAcute})

StartsWithNL(text) == Len(text) > 0 /\ text[1] = NL
EndsWithNL(text) == Len(text) > 0 /\ text[Len(text)] = NL
ContainsNL(text) == \E i \in 1..Len(text) : text[i] = NL

RECURSIVE Reverse(_)
Reverse(s) == IF s = <<>> THEN <<>> ELSE Append(Reverse(Tail(s)), Head(s))

\* Option<usize>
None == <<>>
Some(n) == <<n>>
IsSome(o) == o # <<>>

\* ------------------------------------------------------------ myers.rs
\* the snake: while x < n && y < m && old_lines[x] == new_lines[y]
RECURSIVE ExtendSnake(_, _, _, _)
ExtendSnake(A, B, x, y) ==
    IF CastUsize(x) < Len(A) /\ CastUsize(y) < Len(B) /\ A[x + 1] = B[y + 1]
    THEN ExtendSnake(A, B, x + 1, y + 1)
    ELSE x

\* forward pass: the insertion predecessor k+1 is taken when ...
ForwardTakesInsertion(k, d, v, idx) ==
    k = -d \/ (k # d /\ v[idx - 1] < v[idx + 1])

\* the indices of v the predecessor rule and the read after it touch
PredReadsInBounds(k, d, v, idx) ==
    /\ idx \in DOMAIN v
    /\ (k # -d /\ k # d) => (idx - 1 \in DOMAIN v /\ idx + 1 \in DOMAIN v)
    /\ k = -d => idx + 1 \in DOMAIN v
    /\ (k # -d /\ k = d) => idx - 1 \in DOMAIN v

\* shortest_edit_script: the loops over d and k.  Returns the trace handed to
\* backtrack_ses, or found = FALSE when the loop over d runs out, or
\* oob = TRUE when an index of v is out of bounds (a panic).
RECURSIVE ForK(_, _, _, _, _, _, _)
RECURSIVE ForD(_, _, _, _, _)
ForD(A, B, d, v, trace) ==
    IF d > Len(A) + Len(B)
    THEN [found |-> FALSE, oob |-> FALSE, trace |-> trace]
    ELSE ForK(A, B, d, -d, v, v, trace)

ForK(A, B, d, k, v, v_snapshot, trace) ==
    IF k > d THEN ForD(A, B, d + 1, v, Append(trace, <<d, v>>))
    ELSE
    LET max_d == Len(A) + Len(B)
        idx == CastUsize(k + max_d)
    IN  IF ~PredReadsInBounds(k, d, v, idx)
        THEN [found |-> FALSE, oob |-> TRUE, trace |-> trace]
        ELSE
        LET start_x == IF ForwardTakesInsertion(k, d, v, idx)
                       THEN v[idx + 1] ELSE v[idx - 1] + 1
            x == ExtendSnake(A, B, start_x, start_x - k)
            y == x - k
        IN  IF CastUsize(x) >= Len(A) /\ CastUsize(y) >= Len(B)
            THEN [found |-> TRUE, oob |-> FALSE,
                  trace |-> Append(trace, <<d, [v_snapshot EXCEPT ![idx] = x]>>)]
            ELSE ForK(A, B, d, k + 2, [v EXCEPT ![idx] = x], v_snapshot, trace)

\* backtracking: the same rule read from the trace entry of step d
BacktrackTakesInsertion(k, d, v, idx) ==
    k = -d \/ (k # d /\ v[idx - 1] < v[idx + 1])

Diagonal(x, y) == [kind |-> "Diagonal", x |-> x, y |-> y]
Down(x, y) == [kind |-> "Down", x |-> x, y |-> y]
Right(x, y) == [kind |-> "Right", x |-> x, y |-> y]

\* while x > prev_x && y > prev_y { x -= 1; y -= 1; push Diagonal(x, y) }
RECURSIVE DiagonalBack(_, _, _, _, _)
DiagonalBack(x, y, prev_x, prev_y, moves) ==
    IF x > prev_x /\ y > prev_y
    THEN DiagonalBack(x - 1, y - 1, prev_x, prev_y,
                      Append(moves, Diagonal(CastUsize(x - 1), CastUsize(y - 1))))
    ELSE [x |-> x, y |-> y, moves |-> moves]

\* the single Down or Right move pushed after the diagonal walk of one step
EditMoveBack(x, y, prev_x, prev_y, moves) ==
    IF x > prev_x
    THEN [x |-> x - 1, y |-> y,
          moves |-> Append(moves, Down(CastUsize(x - 1), CastUsize(y)))]
    ELSE IF y > prev_y
    THEN [x |-> x, y |-> y - 1,
          moves |-> Append(moves, Right(CastUsize(x), CastUsize(y - 1)))]
    ELSE [x |-> x, y |-> y, moves |-> moves]

\* for (d, v) in trace.iter().rev(): i is the position in the trace
RECURSIVE BackStep(_, _, _, _, _, _)
BackStep(trace, i, x, y, moves, nm) ==
    IF i = 0 THEN [oob |-> FALSE, moves |-> moves]
    ELSE
    LET d == trace[i][1]
        v == trace[i][2]
        k == x - y
        idx == CastUsize(k + nm)
    IN  IF ~PredReadsInBounds(k, d, v, idx)
        THEN [oob |-> TRUE, moves |-> moves]
        ELSE
        LET prev_k == IF BacktrackTakesInsertion(k, d, v, idx) THEN k + 1 ELSE k - 1
            prev_idx == CastUsize(prev_k + nm)
            prev_x == v[prev_idx]
            prev_y == prev_x - prev_k
            s == DiagonalBack(x, y, prev_x, prev_y, moves)
            e == EditMoveBack(s.x, s.y, prev_x, prev_y, s.moves)
        IN  IF d = 0 THEN [oob |-> FALSE, moves |-> e.moves]
            ELSE BackStep(trace, i - 1, e.x, e.y, e.moves, nm)

\* backtrack_ses: the moves in script order (moves.reverse())
backtrack_ses(trace, n, m) ==
    LET r == BackStep(trace, Len(trace), n, m, <<>>, n + m)
    IN  [oob |-> r.oob, moves |-> Reverse(r.moves)]

shortest_edit_script(A, B) ==
    LET max_d == Len(A) + Len(B)
        f == ForD(A, B, 0, [i \in 0..(2 * max_d) |-> 0], <<>>)
    IN  IF f.oob THEN [oob |-> TRUE, moves |-> <<>>]
        ELSE IF f.found THEN backtrack_ses(f.trace, Len(A), Len(B))
        ELSE [oob |-> FALSE, moves |-> <<>>]

\* ChangeType
Added == "Added"
Removed == "Removed"
Modified == "Modified"
Unchanged == "Unchanged"

\* the cursor state of ses_to_changes: the edits pushed so far, old_idx and
\* new_idx; abort is set when a push finds the Vec at AllocLimit
PushEdit(st, change_type) ==
    IF st.abort THEN st
    ELSE IF Len(st.changes) >= AllocLimit THEN [st EXCEPT !.abort = TRUE]
    ELSE [st EXCEPT !.changes = Append(@, <<change_type, st.old_idx, st.new_idx>>)]

PushUnchanged(st) ==
    LET p == PushEdit(st, Unchanged)
    IN  IF p.abort THEN p
        ELSE [p EXCEPT !.old_idx = @ + 1, !.new_idx = @ + 1]

PushRemoved(st) ==
    LET p == PushEdit(st, Removed)
    IN  IF p.abort THEN p ELSE [p EXCEPT !.old_idx = @ + 1]

PushAdded(st) ==
    LET p == PushEdit(st, Added)
    IN  IF p.abort THEN p ELSE [p EXCEPT !.new_idx = @ + 1]

\* Diagonal(x, y): while old_idx < x || new_idx < y { ... }
RECURSIVE DiagonalCatchUp(_, _, _)
DiagonalCatchUp(st, x, y) ==
    IF st.abort \/ ~(st.old_idx < x \/ st.new_idx < y) THEN st
    ELSE IF st.old_idx < x /\ st.new_idx < y
    THEN DiagonalCatchUp(PushUnchanged(st), x, y)
    ELSE IF st.old_idx < x THEN DiagonalCatchUp(PushRemoved(st), x, y)
    ELSE DiagonalCatchUp(PushAdded(st), x, y)

\* Down(x, _): while old_idx <= x { push Removed }
RECURSIVE DownLoop(_, _)
DownLoop(st, x) ==
    IF st.abort \/ ~(st.old_idx <= x) THEN st
    ELSE DownLoop(PushRemoved(st), x)

\* Right(_, y): while new_idx <= y { push Added }
RECURSIVE RightLoop(_, _)
RightLoop(st, y) ==
    IF st.abort \/ ~(st.new_idx <= y) THEN st
    ELSE RightLoop(PushAdded(st), y)

\* one arm of the match on a snake move
ApplyMove(st, mv) ==
    IF mv.kind = "Diagonal" THEN PushUnchanged(DiagonalCatchUp(st, mv.x, mv.y))
    ELSE IF mv.kind = "Down" THEN DownLoop(st, mv.x)
    ELSE RightLoop(st, mv.y)

RECURSIVE ApplyMoves(_, _, _)
ApplyMoves(st, moves, i) ==
    IF i > Len(moves) \/ st.abort THEN st
    ELSE ApplyMoves(ApplyMove(st, moves[i]), moves, i + 1)

\* "Handle remaining lines"
RemainingLines(st, n, m) == RightLoop(DownLoop(st, n - 1), m - 1)

\* levenshtein_distance: the inner loop over s2 of one row (i, j 0-based)
RECURSIVE LevInner(_, _, _, _, _)
LevInner(c1, s2, j, prev_row, curr_row) ==
    IF ~(j < Len(s2)) THEN curr_row
    ELSE LET cost == IF c1 = s2[j + 1] THEN 0 ELSE 1
             cell == Min(Min(prev_row[j + 1] + 1, curr_row[j] + 1),
                         prev_row[j] + cost)
         IN  LevInner(c1, s2, j + 1, prev_row, [curr_row EXCEPT ![j + 1] = cell])

\* rows are indexed 0..len2; the value returned is prev_row[len2]
RECURSIVE LevOuter(_, _, _, _, _)
LevOuter(s1, s2, i, prev_row, curr_row) ==
    IF ~(i < Len(s1)) THEN prev_row[ByteLen(s2)]
    ELSE LET row == LevInner(s1[i + 1], s2, 0, prev_row,
                             [curr_row EXCEPT ![0] = i + 1])
         IN  LevOuter(s1, s2, i + 1, row, prev_row)

\* len1 and len2 are str::len(), byte counts, and size the rows; the loops
\* run over chars()
levenshtein_distance(s1, s2) ==
    IF ByteLen(s1) = 0 THEN ByteLen(s2)
    ELSE IF ByteLen(s2) = 0 THEN ByteLen(s1)
    ELSE LevOuter(s1, s2, 0, [j \in 0..ByteLen(s2) |-> j],
                  [j \in 0..ByteLen(s2) |-> 0])

\* are_lines_similar: 1.0 - distance / max_len > 0.5, decided exactly as
\* 2 * distance < max_len (f32 rounding differs only for lines of more than
\* 2^24 characters); max_len is a byte count
are_lines_similar(A, B, old_idx, new_idx) ==
    IF old_idx >= Len(A) \/ new_idx >= Len(B) THEN FALSE
    ELSE LET old_line == A[old_idx + 1]
             new_line == B[new_idx + 1]
             distance == levenshtein_distance(old_line, new_line)
             max_len == Max(ByteLen(old_line), ByteLen(new_line))
         IN  IF max_len = 0 THEN TRUE ELSE 2 * distance < max_len

\* detect_modifications: i is the 0-based position in changes
RECURSIVE DetectFrom(_, _, _, _, _)
DetectFrom(A, B, changes, i, result) ==
    IF ~(i < Len(changes)) THEN result
    ELSE IF /\ i + 1 < Len(changes)
            /\ changes[i + 1][1] = Removed
            /\ changes[i + 2][1] = Added
            /\ are_lines_similar(A, B, changes[i + 1][2], changes[i + 2][3])
    THEN DetectFrom(A, B, changes, i + 2,
                    Append(result, <<Modified, changes[i + 1][2], changes[i + 2][3]>>))
    ELSE DetectFrom(A, B, changes, i + 1, Append(result, changes[i + 1]))

detect_modifications(A, B, changes) == DetectFrom(A, B, changes, 0, <<>>)

\* ses_to_changes: panic = TRUE when a push loop exhausts the allocator
ses_to_changes(A, B, moves) ==
    LET st0 == [changes |-> <<>>, old_idx |-> 0, new_idx |-> 0, abort |-> FALSE]
        st1 == ApplyMoves(st0, moves, 1)
        st2 == IF st1.abort THEN st1 ELSE RemainingLines(st1, Len(A), Len(B))
    IN  IF st2.abort THEN [panic |-> TRUE, changes |-> <<>>]
        ELSE [panic |-> FALSE, changes |-> detect_modifications(A, B, st2.changes)]

\* MyersDiff::compute_diff on old_lines A and new_lines B.  panic = TRUE: the
\* call does not return (index out of bounds, or allocation failure).
\* compute_diff once the edit script is known: an index out of bounds in the
\* forward pass panics
ChangesOfScript(A, B, ses) ==
    IF ses.oob THEN [panic |-> TRUE, changes |-> <<>>]
    ELSE ses_to_changes(A, B, ses.moves)

\* a fault C19 has to detect: the all-added early return numbering the new
\* lines from 1
MyersComputeDiffAddedFromOne(A, B) ==
    IF A = <<>> /\ B = <<>> THEN [panic |-> FALSE, changes |-> <<>>]
    ELSE IF A = <<>>
    THEN [panic |-> FALSE, changes |-> [i \in 1..Len(B) |-> <<Added, 0, i>>]]
    ELSE IF B = <<>>
    THEN [panic |-> FALSE, changes |-> [i \in 1..Len(A) |-> <<Removed, i - 1, 0>>]]
    ELSE ChangesOfScript(A, B, shortest_edit_script(A, B))

MyersComputeDiff(A, B) ==
    IF A = <<>> /\ B = <<>> THEN [panic |-> FALSE, changes |-> <<>>]
    ELSE IF A = <<>>
    THEN [panic |-> FALSE, changes |-> [i \in 1..Len(B) |-> <<Added, 0, i - 1>>]]
    ELSE IF B = <<>>
    THEN [panic |-> FALSE, changes |-> [i \in 1..Len(A) |-> <<Removed, i - 1, 0>>]]
    ELSE ChangesOfScript(A, B, shortest_edit_script(A, B))

\* ------------------------------------------------------------ diff.rs
\* is_large_file: len() > 1024 * 1024
LargeFileBytes == 1048576

\* DiffOptions::default(): context_lines: 3
DefaultContextLines == 3

\* the options a caller can hand over: context_lines and max_file_size vary
OptionSet ==
    [context_lines : (0..MaxContext) \cup {DefaultContextLines},
     max_file_size : {2, MaxFileSize}]

\* format!("@@ -{},{} +{},{} @@", os, ol, ns, nl)
FormatHeader(os, ol, ns, nl) ==
    "@@ -" \o ToString(os) \o "," \o ToString(ol)
           \o " +" \o ToString(ns) \o "," \o ToString(nl) \o " @@"

create_new_hunk(old_start, new_start, context_lines) ==
    LET start == SaturatingSub(old_start, context_lines)
    IN  [old_start |-> start + 1,
         old_lines |-> 0,
         new_start |-> SaturatingSub(new_start, context_lines) + 1,
         new_lines |-> 0,
         changes |-> <<>>,
         header |-> FormatHeader(start + 1, 0, new_start + 1, 0)]

\* old_lines.get(idx).copied().unwrap_or("")
GetOr(lines, idx) == IF idx < Len(lines) THEN lines[idx + 1] ELSE <<>>

\* the DiffChange pushed for a non-Unchanged edit (tokens and semantic_info
\* are None)
NewDiffChange(change_type, old_idx, new_idx, old_lines, new_lines) ==
    [change_type |-> change_type,
     old_line_number |-> IF change_type # Added THEN Some(old_idx + 1) ELSE None,
     new_line_number |-> IF change_type # Removed THEN Some(new_idx + 1) ELSE None,
     content |-> IF change_type = Removed THEN GetOr(old_lines, old_idx)
                 ELSE IF change_type = Added THEN GetOr(new_lines, new_idx)
                 ELSE <<>>]

\* a fault C21 has to detect: a hunk closed after context_lines Unchanged
\* edits instead of 2 * context_lines
HunkStepSingleContext(st, i, change, old_lines, new_lines, context_lines) ==
    LET change_type == change[1]
        should_start_new_hunk ==
            st.current = None
            \/ (change_type = Unchanged
                /\ i - st.last_change_idx > context_lines)
        st1 == IF should_start_new_hunk /\ st.current # None
               THEN [st EXCEPT !.hunks = Append(@, st.current[1]),
                               !.current = None]
               ELSE st
    IN  IF change_type # Unchanged
        THEN LET hunk == IF st1.current = None
                         THEN create_new_hunk(change[2], change[3], context_lines)
                         ELSE st1.current[1]
                 rec == NewDiffChange(change_type, change[2], change[3],
                                      old_lines, new_lines)
             IN  [hunks |-> st1.hunks,
                  current |-> Some([hunk EXCEPT !.changes = Append(@, rec)]),
                  last_change_idx |-> i]
        ELSE st1

\* the body of the loop of create_hunks for the edit at 0-based position i;
\* st.current is the Option<DiffHunk> current_hunk
HunkStep(st, i, change, old_lines, new_lines, context_lines) ==
    LET change_type == change[1]
        should_start_new_hunk ==
            st.current = None
            \/ (change_type = Unchanged
                /\ i - st.last_change_idx > context_lines * 2)
        st1 == IF should_start_new_hunk /\ st.current # None
               THEN [st EXCEPT !.hunks = Append(@, st.current[1]),
                               !.current = None]
               ELSE st
    IN  IF change_type # Unchanged
        THEN LET hunk == IF st1.current = None
                         THEN create_new_hunk(change[2], change[3], context_lines)
                         ELSE st1.current[1]
                 rec == NewDiffChange(change_type, change[2], change[3],
                                      old_lines, new_lines)
             IN  [hunks |-> st1.hunks,
                  current |-> Some([hunk EXCEPT !.changes = Append(@, rec)]),
                  last_change_idx |-> i]
        ELSE st1

\* the for loop of create_hunks over the edits at 0-based positions lo..hi-1,
\* in order; the range is halved (first half, then second half from the
\* state the first left) to keep the evaluation depth logarithmic.  The
\* first test reads st, so that the state the earlier edits left is computed
\* before the range is entered (last_change_idx is a usize).
RECURSIVE HunkLoop(_, _, _, _, _, _, _)
HunkLoop(st, lo, hi, changes, old_lines, new_lines, context_lines) ==
    IF st.last_change_idx < 0 \/ ~(lo < hi) THEN st
    ELSE IF hi - lo = 1
         THEN HunkStep(st, lo, changes[lo + 1], old_lines, new_lines,
                       context_lines)
    ELSE HunkLoop(HunkLoop(st, lo, (lo + hi) \div 2, changes, old_lines,
                           new_lines, context_lines),
                  (lo + hi) \div 2, hi, changes, old_lines, new_lines,
                  context_lines)

FlushCurrent(st) ==
    IF st.current # None THEN Append(st.hunks, st.current[1]) ELSE st.hunks

create_hunks(changes, old_lines, new_lines, opts) ==
    FlushCurrent(HunkLoop([hunks |-> <<>>, current |-> None,
                           last_change_idx |-> 0],
                          0, Len(changes), changes, old_lines, new_lines,
                          opts.context_lines))

\* the number of change records of the given type in a hunk list
RECURSIVE CountType(_, _)
CountType(hunks, t) ==
    IF hunks = <<>> THEN 0
    ELSE Cardinality({i \in 1..Len(hunks[1].changes) :
                          hunks[1].changes[i].change_type = t})
         + CountType(Tail(hunks), t)

RECURSIVE Gcd(_, _)
Gcd(a, b) == IF b = 0 THEN a ELSE Gcd(b, a % b)

\* an f32 in [0, 1] kept as the exact fraction num/den in lowest terms
Fraction(num, den) == [num |-> num \div Gcd(num, den), den |-> den \div Gcd(num, den)]

\* a fault C8 has to detect: no lines at all count as similarity 0
SimilarityZeroForNoLines(total_changes, total_lines) ==
    IF total_lines > 0
    THEN IF total_changes >= total_lines THEN Fraction(0, 1)
         ELSE Fraction(total_lines - total_changes, total_lines)
    ELSE Fraction(0, 1)

\* similarity: 1.0 - changes / lines, or 1.0 for no lines, then
\* .max(0.0).min(1.0); kept exact (f32 rounding is left out)
Similarity(total_changes, total_lines) ==
    IF total_lines > 0
    THEN IF total_changes >= total_lines THEN Fraction(0, 1)
         ELSE Fraction(total_lines - total_changes, total_lines)
    ELSE Fraction(1, 1)

\* DiffStats from a hunk list and the total of lines
StatsOf(hunks, total_lines) ==
    LET added_lines == CountType(hunks, Added)
        removed_lines == CountType(hunks, Removed)
        modified_lines == CountType(hunks, Modified)
        total_changes == added_lines + removed_lines + modified_lines
    IN  [total_lines |-> total_lines,
         added_lines |-> added_lines,
         removed_lines |-> removed_lines,
         modified_lines |-> modified_lines,
         unchanged_lines |-> SaturatingSub(total_lines, total_changes),
         similarity |-> Similarity(total_changes, total_lines)]

calculate_stats(hunks, old_total, new_total) ==
    StatsOf(hunks, Max(old_total, new_total))

\* the three ways a call ends: Ok(value), Err(err), or a panic / abort that
\* never returns to the caller
Ok(value) == [tag |-> "Ok", value |-> value]
Err(err) == [tag |-> "Err", err |-> err]
Panic == [tag |-> "Panic"]
\* the value of Ok(()): a record, like every other value a call returns, so
\* that any two results can be compared
Unit == [unit |-> TRUE]

\* diff::compute_diff.  All three algorithms run MyersDiff; analyze_changes
\* returns the edits as they are; the texts hold no NUL byte.
\* compute_diff, the DiffResult it returns
DiffResultOf(hunks, old_total, new_total, is_large_file) ==
    Ok([hunks |-> hunks,
        stats |-> calculate_stats(hunks, old_total, new_total),
        is_binary |-> FALSE,
        is_large_file |-> is_large_file])

\* compute_diff from the raw changes on: hunks, statistics, the result
DiffOfChanges(raw_changes, old_lines, new_lines, is_large_file, opts) ==
    IF raw_changes.panic THEN Panic
    ELSE DiffResultOf(create_hunks(raw_changes.changes, old_lines, new_lines, opts),
                      Len(old_lines), Len(new_lines), is_large_file)

\* compute_diff from the split lines on
DiffOfLines(old_lines, new_lines, is_large_file, opts) ==
    DiffOfChanges(MyersComputeDiff(old_lines, new_lines), old_lines, new_lines,
                  is_large_file, opts)

compute_diff(old_text, new_text, opts) ==
    IF Len(old_text) > opts.max_file_size \/ Len(new_text) > opts.max_file_size
    THEN Err("FileTooLarge")
    ELSE DiffOfLines(Lines(old_text), Lines(new_text),
                     Len(old_text) > LargeFileBytes \/ Len(new_text) > LargeFileBytes,
                     opts)

\* ------------------------------------------------------------ streaming.rs
\* process_available_chunks: let chunk_size = 1000
ChunkSize == 1000
\* should_process_chunk: more than 1000 lines in a buffer
LineTrigger == 1000

NewLineBuffer(max_size) == [lines |-> <<>>, total_size |-> 0, max_size |-> max_size]

\* the lines of the buffer after a chunk that passed the size check
ChunkIntoLines(buf_lines, chunk) ==
    LET lines == Lines(chunk)
        continues == buf_lines # <<>> /\ ~StartsWithNL(chunk) /\ lines # <<>>
        joined == IF continues
                  THEN [buf_lines EXCEPT ![Len(buf_lines)] = @ \o lines[1]]
                  ELSE buf_lines
        pushed == joined \o (IF continues THEN Tail(lines) ELSE lines)
    IN  IF ~EndsWithNL(chunk) /\ ContainsNL(chunk) THEN pushed
        ELSE IF EndsWithNL(chunk) /\ pushed # <<>> THEN Append(pushed, <<>>)
        ELSE pushed

\* a fault C14 has to detect: a chunk that exactly fills the buffer is refused
LineBufferAddChunkCapExcluded(buf, chunk) ==
    IF buf.total_size + Len(chunk) >= buf.max_size
    THEN [res |-> Err("BufferOverflow"), buf |-> buf]
    ELSE [res |-> Ok(Unit),
          buf |-> [buf EXCEPT !.lines = ChunkIntoLines(buf.lines, chunk),
                              !.total_size = @ + Len(chunk)]]

\* LineBuffer::add_chunk: Err(BufferOverflow) leaves the buffer as it is
LineBufferAddChunk(buf, chunk) ==
    IF buf.total_size + Len(chunk) > buf.max_size
    THEN [res |-> Err("BufferOverflow"), buf |-> buf]
    ELSE [res |-> Ok(Unit),
          buf |-> [buf EXCEPT !.lines = ChunkIntoLines(buf.lines, chunk),
                              !.total_size = @ + Len(chunk)]]

\* LineBuffer::get_lines(0, count)
GetLines(buf, count) == SubSeq(buf.lines, 1, Min(count, Len(buf.lines)))

\* lines.drain(0..count)
Drain(buf, count) ==
    [buf EXCEPT !.lines = SubSeq(@, Min(count, Len(@)) + 1, Len(@))]

\* StreamingDiff::new
NewSession(opts) ==
    LET max_buffer_size == opts.max_file_size \div 2
    IN  [options |-> opts,
         old_buffer |-> NewLineBuffer(max_buffer_size),
         new_buffer |-> NewLineBuffer(max_buffer_size),
         processed_old_lines |-> 0,
         processed_new_lines |-> 0,
         current_hunks |-> <<>>,
         state |-> "ReceivingOld"]

should_process_chunk(s) ==
    \/ Len(s.old_buffer.lines) > LineTrigger
    \/ Len(s.new_buffer.lines) > LineTrigger
    \/ s.old_buffer.total_size > s.old_buffer.max_size \div 2
    \/ s.new_buffer.total_size > s.new_buffer.max_size \div 2

\* one record of a window's hunk with its line numbers rebased
\* a fault C3 has to detect: the window's line numbers are pushed as they
\* are, without the lines processed before
RebaseChangeNoBase(change, old_base, new_base) == change

RebaseChange(change, old_base, new_base) ==
    [change EXCEPT
        !.old_line_number = IF IsSome(@) THEN Some(@[1] + old_base) ELSE None,
        !.new_line_number = IF IsSome(@) THEN Some(@[1] + new_base) ELSE None]

\* a fault C26 has to detect: the records rebased, old_start and new_start
\* left as the window's diff gave them
RebaseHunkKeepStart(hunk, old_base, new_base) ==
    [hunk EXCEPT
        !.changes = [i \in 1..Len(@) |-> RebaseChange(@[i], old_base, new_base)]]

\* a window's hunk as it is pushed to current_hunks
RebaseHunk(hunk, old_base, new_base) ==
    [hunk EXCEPT
        !.old_start = @ + old_base,
        !.new_start = @ + new_base,
        !.changes = [i \in 1..Len(@) |-> RebaseChange(@[i], old_base, new_base)]]

\* process_available_chunks: res is Ok, Err(InvalidState) or Panic; s is the
\* session afterwards
\* the hunks of one window with the lines processed so far added
RebaseHunks(hunks, old_base, new_base) ==
    [i \in 1..Len(hunks) |-> RebaseHunk(hunks[i], old_base, new_base)]

\* process_available_chunks once the window's diff is known
AfterChunkDiff(s, old_count, new_count, chunk_result) ==
    IF chunk_result.tag = "Panic" THEN [res |-> Panic, s |-> s]
    ELSE IF chunk_result.tag = "Err"
    THEN [res |-> Err("InvalidState"), s |-> s]
    ELSE [res |-> Ok(Unit),
          s |-> [s EXCEPT
                   !.current_hunks =
                       @ \o RebaseHunks(chunk_result.value.hunks,
                                        s.processed_old_lines,
                                        s.processed_new_lines),
                   !.processed_old_lines = @ + old_count,
                   !.processed_new_lines = @ + new_count,
                   !.old_buffer = Drain(@, old_count),
                   !.new_buffer = Drain(@, new_count)]]

\* process_available_chunks on the windows old_lines and new_lines
ProcessWindow(s, old_lines, new_lines) ==
    AfterChunkDiff(s, Len(old_lines), Len(new_lines),
                   compute_diff(Join(old_lines), Join(new_lines), s.options))

process_available_chunks(s) ==
    ProcessWindow(s, GetLines(s.old_buffer, ChunkSize),
                  GetLines(s.new_buffer, ChunkSize))

\* StreamingDiff::calculate_stats
streaming_calculate_stats(s) ==
    StatsOf(s.current_hunks, Max(s.processed_old_lines, s.processed_new_lines))

\* add_old_chunk once the buffer has taken or refused the chunk
AfterAddOld(s, r) == [res |-> r.res, s |-> [s EXCEPT !.old_buffer = r.buf]]

\* a fault C9 has to detect: add_old_chunk without its state check
add_old_chunk_any_state(s, chunk) ==
    AfterAddOld(s, LineBufferAddChunk(s.old_buffer, chunk))

add_old_chunk(s, chunk) ==
    IF s.state # "ReceivingOld" THEN [res |-> Err("InvalidState"), s |-> s]
    ELSE AfterAddOld(s, LineBufferAddChunk(s.old_buffer, chunk))

start_new_file(s) ==
    IF s.state # "ReceivingOld" THEN [res |-> Err("InvalidState"), s |-> s]
    ELSE [res |-> Ok(Unit), s |-> [s EXCEPT !.state = "ReceivingNew"]]

\* add_new_chunk once the chunk is in the buffer (s1) or was refused (res)
AfterAddNew(res, s1) ==
    IF res.tag = "Err" THEN [res |-> res, s |-> s1]
    ELSE IF should_process_chunk(s1) THEN process_available_chunks(s1)
    ELSE [res |-> Ok(Unit), s |-> s1]

add_new_chunk(s, chunk) ==
    IF s.state # "ReceivingNew" THEN [res |-> Err("InvalidState"), s |-> s]
    ELSE AfterAddNew(LineBufferAddChunk(s.new_buffer, chunk).res,
                     [s EXCEPT !.new_buffer =
                                   LineBufferAddChunk(s.new_buffer, chunk).buf])

\* finalize on the session s1 whose remaining lines are processed: the state
\* becomes Finalized, the result takes the hunks out of the session
FinalResult(s1) ==
    [res |-> Ok([hunks |-> s1.current_hunks,
                 stats |-> streaming_calculate_stats(s1),
                 is_binary |-> FALSE,
                 is_large_file |-> TRUE]),
     s |-> [s1 EXCEPT !.state = "Finalized", !.current_hunks = <<>>]]

\* finalize after the remaining lines went through process_available_chunks
\* (p): its error ends finalize
AfterFlush(p) == IF p.res.tag # "Ok" THEN p ELSE FinalResult(p.s)

\* a fault C11 has to detect: finalize without its state check
finalize_any_state(s) ==
    AfterFlush(IF s.old_buffer.lines # <<>> \/ s.new_buffer.lines # <<>>
               THEN process_available_chunks(s)
               ELSE [res |-> Ok(Unit), s |-> s])

finalize(s) ==
    IF s.state = "Finalized" THEN [res |-> Err("InvalidState"), s |-> s]
    ELSE AfterFlush(IF s.old_buffer.lines # <<>> \/ s.new_buffer.lines # <<>>
                    THEN process_available_chunks(s)
                    ELSE [res |-> Ok(Unit), s |-> s])

\* a fault C16 has to detect: the snapshot without the accumulated hunks
get_intermediate_result_no_hunks(s) ==
    [hunks |-> <<>>,
     stats |-> streaming_calculate_stats(s),
     is_binary |-> FALSE,
     is_large_file |-> TRUE]

get_intermediate_result(s) ==
    [hunks |-> s.current_hunks,
     stats |-> streaming_calculate_stats(s),
     is_binary |-> FALSE,
     is_large_file |-> TRUE]

\* ------------------------------------------------------------ state
\* The fields of one StreamingDiff session (state .. options), the outcome of
\* the last call made on it (ret), whether a call panicked and took the
\* session with it (crashed); and, for the checks of the pure functions, the
\* arguments of one call (arg), its result (out) and where the call stands (pc).
VARIABLES state, old_buffer, new_buffer, processed_old_lines,
          processed_new_lines, current_hunks, options, ret, crashed,
          pc, arg, out

sessionVars == <<state, old_buffer, new_buffer, processed_old_lines,
                 processed_new_lines, current_hunks, options>>
vars == <<state, old_buffer, new_buffer, processed_old_lines,
          processed_new_lines, current_hunks, options, ret, crashed,
          pc, arg, out>>

Session ==
    [options |-> options,
     old_buffer |-> old_buffer,
     new_buffer |-> new_buffer,
     processed_old_lines |-> processed_old_lines,
     processed_new_lines |-> processed_new_lines,
     current_hunks |-> current_hunks,
     state |-> state]

SessionIs(s) ==
    /\ options = s.options
    /\ old_buffer = s.old_buffer
    /\ new_buffer = s.new_buffer
    /\ processed_old_lines = s.processed_old_lines
    /\ processed_new_lines = s.processed_new_lines
    /\ current_hunks = s.current_hunks
    /\ state = s.state

SessionBecomes(s) ==
    /\ options' = s.options
    /\ old_buffer' = s.old_buffer
    /\ new_buffer' = s.new_buffer
    /\ processed_old_lines' = s.processed_old_lines
    /\ processed_new_lines' = s.processed_new_lines
    /\ current_hunks' = s.current_hunks
    /\ state' = s.state

Chunks == Texts(MaxChunkLen)

\* ------------------------------------------------------------ the session
InitSession ==
    /\ \E opts \in OptionSet : SessionIs(NewSession(opts))
    /\ ret = [op |-> "new", res |-> Ok(Unit)]
    /\ crashed = FALSE
    /\ pc = "session"
    /\ arg = <<>>
    /\ out = <<>>

\* a call on the session that ends as r: the session afterwards and Ok, Err
\* or Panic; after a panic no further call is served
Call(op, r) ==
    /\ pc = "session"
    /\ ~crashed
    /\ SessionBecomes(r.s)
    /\ ret' = [op |-> op, res |-> r.res]
    /\ crashed' = (r.res.tag = "Panic")
    /\ UNCHANGED <<pc, arg, out>>

AddOldChunk == \E chunk \in Chunks : Call("add_old_chunk", add_old_chunk(Session, chunk))

StartNewFile == Call("start_new_file", start_new_file(Session))

AddNewChunk == \E chunk \in Chunks : Call("add_new_chunk", add_new_chunk(Session, chunk))

Finalize == Call("finalize", finalize(Session))

GetIntermediateResult ==
    Call("get_intermediate_result",
         [res |-> Ok(get_intermediate_result(Session)), s |-> Session])

\* ------------------------------------------------------------ compute_diff
\* one call of diff::compute_diff on two texts
\* the texts of myers.rs's test_mixed_changes: three lines, the middle one
\* replaced
MixedOld == <<"a", NL, "b", NL, "c">>
MixedNew == <<"a", NL, "x", NL, "c">>

\* the calls made: every pair of texts of up to MaxTextLen bytes, and the
\* pair of test_mixed_changes
DiffArgs ==
    [old_text : Texts(MaxTextLen), new_text : Texts(MaxTextLen),
     options : OptionSet]
    \cup [old_text : {MixedOld}, new_text : {MixedNew}, options : OptionSet]

InitDiff ==
    /\ pc = "call"
    /\ arg \in DiffArgs
    /\ out = <<>>
    /\ SessionIs(NewSession(arg.options))
    /\ ret = [op |-> "new", res |-> Ok(Unit)]
    /\ crashed = FALSE

RunComputeDiff ==
    /\ pc = "call"
    /\ pc' = "done"
    /\ out' = compute_diff(arg.old_text, arg.new_text, arg.options)
    /\ UNCHANGED <<sessionVars, ret, crashed, arg>>

\* ------------------------------------------------------------ the engine
\* The public operations: a streaming session and the calls made on it, or
\* one call of compute_diff.
Init == InitSession \/ InitDiff

Next ==
    \/ AddOldChunk
    \/ StartNewFile
    \/ AddNewChunk
    \/ Finalize
    \/ GetIntermediateResult
    \/ RunComputeDiff

Spec == Init /\ [][Next]_vars

\* ------------------------------------------------------------ MyersDiff
\* longest line sequence handed to MyersDiff in SpecMyers
MaxLines == 3

ModelLines == {<<>>, <<"a">>, <<"b">>, <<"a", "b">>}
LineSeqs == UNION {[1..k -> ModelLines] : k \in 0..MaxLines}

\* what one call of MyersDiff::compute_diff goes through: the snake moves of
\* shortest_edit_script (when both sides hold lines) and the returned edits
MyersRun(A, B) ==
    [ses |-> IF A # <<>> /\ B # <<>> THEN shortest_edit_script(A, B)
             ELSE [oob |-> FALSE, moves |-> <<>>],
     result |-> MyersComputeDiff(A, B)]

InitMyers ==
    /\ pc = "call"
    /\ arg \in [old_lines : LineSeqs, new_lines : LineSeqs]
    /\ out = <<>>
    /\ SessionIs(NewSession([context_lines |-> 0, max_file_size |-> MaxFileSize]))
    /\ ret = [op |-> "new", res |-> Ok(Unit)]
    /\ crashed = FALSE

RunMyers ==
    /\ pc = "call"
    /\ pc' = "done"
    /\ out' = MyersRun(arg.old_lines, arg.new_lines)
    /\ UNCHANGED <<sessionVars, ret, crashed, arg>>

NextMyers == RunMyers

SpecMyers == InitMyers /\ [][NextMyers]_vars

\* ------------------------------------------------------------ create_hunks
\* longest edit stream handed to create_hunks in SpecHunks
MaxEdits == 5

Tags == {Added, Removed, Modified, Unchanged}
TagSeqs == UNION {[1..k -> Tags] : k \in 0..MaxEdits}

\* The edit stream with the given tags: old_idx and new_idx are the cursors
\* of the stream (an edit that keeps the old side advances old_idx, one that
\* keeps the new side advances new_idx).
RECURSIVE StreamFrom(_, _, _, _)
StreamFrom(tags, i, o, n) ==
    IF i > Len(tags) THEN <<>>
    ELSE <<<<tags[i], o, n>>>>
         \o StreamFrom(tags, i + 1,
                       IF tags[i] # Added THEN o + 1 ELSE o,
                       IF tags[i] # Removed THEN n + 1 ELSE n)

\* lines the stream is an edit script of: an Unchanged edit joins two equal
\* lines, a Modified edit two similar ones, Removed/Added two dissimilar ones
RECURSIVE OldLinesOf(_)
OldLinesOf(tags) ==
    IF tags = <<>> THEN <<>>
    ELSE (IF tags[1] = Added THEN <<>>
          ELSE IF tags[1] = Modified THEN << <<"a", "a", "b">> >>
          ELSE << <<"a">> >>)
         \o OldLinesOf(Tail(tags))

RECURSIVE NewLinesOf(_)
NewLinesOf(tags) ==
    IF tags = <<>> THEN <<>>
    ELSE (IF tags[1] = Removed THEN <<>>
          ELSE IF tags[1] = Modified THEN << <<"a", "a", "a">> >>
          ELSE IF tags[1] = Added THEN << <<"b">> >>
          ELSE << <<"a">> >>)
         \o NewLinesOf(Tail(tags))

InitHunks ==
    /\ pc = "call"
    /\ arg \in [tags : TagSeqs, context_lines : 0..MaxContext]
    /\ out = <<>>
    /\ SessionIs(NewSession([context_lines |-> 0, max_file_size |-> MaxFileSize]))
    /\ ret = [op |-> "new", res |-> Ok(Unit)]
    /\ crashed = FALSE

RunCreateHunks ==
    /\ pc = "call"
    /\ pc' = "done"
    /\ out' = create_hunks(StreamFrom(arg.tags, 1, 0, 0),
                           OldLinesOf(arg.tags), NewLinesOf(arg.tags),
                           [context_lines |-> arg.context_lines,
                            max_file_size |-> MaxFileSize])
    /\ UNCHANGED <<sessionVars, ret, crashed, arg>>

NextHunks == RunCreateHunks

SpecHunks == InitHunks /\ [][NextHunks]_vars

\* ------------------------------------------------------------ lib.rs
\* calculate_insights: hunk_adds and hunk_dels of one hunk (a Modified record
\* adds to both)
HunkAdds(hunk) ==
    Cardinality({i \in 1..Len(hunk.changes) :
                     hunk.changes[i].change_type \in {Added, Modified}})

HunkDels(hunk) ==
    Cardinality({i \in 1..Len(hunk.changes) :
                     hunk.changes[i].change_type \in {Removed, Modified}})

\* a fault C27 has to detect: a Modified record counted once, as one change
HunkIntensityModifiedOnce(hunk) ==
    Fraction(Cardinality({i \in 1..Len(hunk.changes) :
                              hunk.changes[i].change_type # Unchanged}),
             Len(hunk.changes))

\* total_changes as f32 / total_lines, as an exact fraction
HunkIntensity(hunk) ==
    Fraction(HunkAdds(hunk) + HunkDels(hunk), Len(hunk.changes))

\* the hunks for which a value is pushed: if total_lines > 0.0
HunksWithLines(hunks) == SelectSeq(hunks, LAMBDA h : Len(h.changes) > 0)

IntensitiesOf(measured) ==
    [i \in 1..Len(measured) |-> HunkIntensity(measured[i])]

calculate_insights(result) ==
    [additions |-> CountType(result.hunks, Added),
     deletions |-> CountType(result.hunks, Removed),
     modifications |-> CountType(result.hunks, Modified),
     similarity |-> result.stats.similarity,
     hunks |-> Len(result.hunks),
     change_intensity |-> IntensitiesOf(HunksWithLines(result.hunks))]

\* The results calculate_insights is applied to: up to MaxHunks hunks of up
\* to MaxHunkRecords change records each, of every change type (a hunk
\* without records included).
MaxHunks == 2
MaxHunkRecords == 2

HunkTypes == UNION {[1..k -> Tags] : k \in 0..MaxHunkRecords}
HunkTypeLists == UNION {[1..k -> HunkTypes] : k \in 0..MaxHunks}

RecordsOf(stream) ==
    [i \in 1..Len(stream) |->
        NewDiffChange(stream[i][1], stream[i][2], stream[i][3], <<>>, <<>>)]

HunkOfTypes(types) ==
    [create_new_hunk(0, 0, 0) EXCEPT !.changes = RecordsOf(StreamFrom(types, 1, 0, 0))]

ResultOfHunks(type_lists) ==
    DiffResultOf([h \in 1..Len(type_lists) |-> HunkOfTypes(type_lists[h])],
                 MaxHunks * MaxHunkRecords, MaxHunks * MaxHunkRecords,
                 FALSE).value

InitInsights ==
    /\ pc = "call"
    /\ arg \in [hunks : HunkTypeLists]
    /\ out = <<>>
    /\ SessionIs(NewSession([context_lines |-> 0, max_file_size |-> MaxFileSize]))
    /\ ret = [op |-> "new", res |-> Ok(Unit)]
    /\ crashed = FALSE

RunInsights ==
    /\ pc = "call"
    /\ pc' = "done"
    /\ out' = [result |-> ResultOfHunks(arg.hunks),
               insights |-> calculate_insights(ResultOfHunks(arg.hunks))]
    /\ UNCHANGED <<sessionVars, ret, crashed, arg>>

NextInsights == RunInsights

SpecInsights == InitInsights /\ [][NextInsights]_vars

\* ------------------------------------------------------------ detect_modifications
\* longest raw edit list handed to detect_modifications in SpecDetect
MaxDetectEdits == 3

\* the edit types ses_to_changes pushes
RawTags == {Added, Removed, Unchanged}
RawTagSeqs == UNION {[1..k -> RawTags] : k \in 0..MaxDetectEdits}

\* lines of the two sides: empty, one character, a pair one edit apart at
\* half the length (a, ab), a pair one edit apart at a third of the length
\* (aab, aaa), and a pair one edit apart of which one line holds a
\* two-byte character
OldDetectLines == {<<>>, <<"a">>, <<"e">>, <<"a", "a", "b">>}
NewDetectLines == {<<>>, <<"a", "b">>, <<EAcute>>, <<"a", "a", "a">>}

\* the number of lines of each side that an edit list with these tags covers
OldCount(tags) == Cardinality({i \in 1..Len(tags) : tags[i] # Added})
NewCount(tags) == Cardinality({i \in 1..Len(tags) : tags[i] # Removed})

DetectArgs ==
    UNION {[tags : {tags},
            old_lines : [1..OldCount(tags) -> OldDetectLines],
            new_lines : [1..NewCount(tags) -> NewDetectLines]] :
           tags \in RawTagSeqs}

InitDetect ==
    /\ pc = "call"
    /\ arg \in DetectArgs
    /\ out = <<>>
    /\ SessionIs(NewSession([context_lines |-> 0, max_file_size |-> MaxFileSize]))
    /\ ret = [op |-> "new", res |-> Ok(Unit)]
    /\ crashed = FALSE

RunDetect ==
    /\ pc = "call"
    /\ pc' = "done"
    /\ out' = detect_modifications(arg.old_lines, arg.new_lines,
                                   StreamFrom(arg.tags, 1, 0, 0))
    /\ UNCHANGED <<sessionVars, ret, crashed, arg>>

NextDetect == RunDetect

SpecDetect == InitDetect /\ [][NextDetect]_vars

\* ------------------------------------------------------------ two texts streamed
\* Two whole texts fed to one session: the old text in chunks cut anywhere,
\* start_new_file, the new text in chunks, finalize.  max_file_size is large
\* enough that should_process_chunk stays false for texts of up to
\* MaxTextLen bytes, so finalize runs the only window.  out counts the bytes
\* fed so far.
FeedOptions ==
    [context_lines : (0..MaxContext) \cup {DefaultContextLines},
     max_file_size : {4 * MaxTextLen}]

InitFeed ==
    /\ pc = "feed_old"
    /\ arg \in [old_text : Texts(MaxTextLen), new_text : Texts(MaxTextLen),
                options : FeedOptions]
    /\ out = [old_fed |-> 0, new_fed |-> 0]
    /\ SessionIs(NewSession(arg.options))
    /\ ret = [op |-> "new", res |-> Ok(Unit)]
    /\ crashed = FALSE

\* a call made while feeding: like Call, with the position in the texts
Fed(op, r, next_pc, next_out) ==
    /\ ~crashed
    /\ SessionBecomes(r.s)
    /\ ret' = [op |-> op, res |-> r.res]
    /\ crashed' = (r.res.tag = "Panic")
    /\ pc' = next_pc
    /\ out' = next_out
    /\ UNCHANGED arg

FeedOld ==
    /\ pc = "feed_old"
    /\ \E n \in 1..(Len(arg.old_text) - out.old_fed) :
           Fed("add_old_chunk",
               add_old_chunk(Session, SubSeq(arg.old_text, out.old_fed + 1,
                                             out.old_fed + n)),
               "feed_old", [out EXCEPT !.old_fed = @ + n])

FeedStartNewFile ==
    /\ pc = "feed_old"
    /\ out.old_fed = Len(arg.old_text)
    /\ Fed("start_new_file", start_new_file(Session), "feed_new", out)

FeedNew ==
    /\ pc = "feed_new"
    /\ \E n \in 1..(Len(arg.new_text) - out.new_fed) :
           Fed("add_new_chunk",
               add_new_chunk(Session, SubSeq(arg.new_text, out.new_fed + 1,
                                             out.new_fed + n)),
               "feed_new", [out EXCEPT !.new_fed = @ + n])

FeedFinalize ==
    /\ pc = "feed_new"
    /\ out.new_fed = Len(arg.new_text)
    /\ Fed("finalize", finalize(Session), "fed", out)

NextFeed ==
    \/ FeedOld
    \/ FeedStartNewFile
    \/ FeedNew
    \/ FeedFinalize

SpecFeed == InitFeed /\ [][NextFeed]_vars

\* ------------------------------------------------------------ large buffers
\* A session fed chunks that leave more than ChunkSize lines in a buffer:
\* beside the one-byte chunks, chunks of ChunkSize - 1 and ChunkSize + 1
\* line endings.  max_file_size leaves room for two of the large chunks on a
\* side; out counts the chunks offered, at most MaxFlushCalls.  arg is the
\* side that receives text: the other side stays empty, so every window is
\* one of the early returns of MyersDiff::compute_diff.
MaxFlushCalls == 3

BlankLines(n) == [i \in 1..n |-> NL]

FlushChunks ==
    Texts(1) \cup {BlankLines(ChunkSize - 1), BlankLines(ChunkSize + 1)}

FlushOptions ==
    [context_lines : {0, DefaultContextLines},
     max_file_size : {4 * (ChunkSize + MaxChunkLen)}]

InitFlush ==
    /\ pc = "flush"
    /\ arg \in {"old", "new"}
    /\ out = 0
    /\ \E opts \in FlushOptions : SessionIs(NewSession(opts))
    /\ ret = [op |-> "new", res |-> Ok(Unit)]
    /\ crashed = FALSE

FlushAddOld ==
    /\ pc = "flush"
    /\ arg = "old"
    /\ out < MaxFlushCalls
    /\ \E chunk \in FlushChunks :
           Fed("add_old_chunk", add_old_chunk(Session, chunk), "flush", out + 1)

FlushStartNewFile ==
    /\ pc = "flush"
    /\ Fed("start_new_file", start_new_file(Session), "flush", out)

FlushAddNew ==
    /\ pc = "flush"
    /\ arg = "new"
    /\ out < MaxFlushCalls
    /\ \E chunk \in FlushChunks :
           Fed("add_new_chunk", add_new_chunk(Session, chunk), "flush", out + 1)

FlushFinalize ==
    /\ pc = "flush"
    /\ Fed("finalize", finalize(Session), "flush", out)

NextFlush ==
    \/ FlushAddOld
    \/ FlushStartNewFile
    \/ FlushAddNew
    \/ FlushFinalize

SpecFlush == InitFlush /\ [][NextFlush]_vars

\* ------------------------------------------------------------ lib_complex.rs
\* StreamingDiffProcessor, the exported wrapper of a session: addOldChunk,
\* addNewChunk, finalize and getIntermediateResult hand the call to the
\* StreamingDiff it owns and turn an error into its message; no method of
\* the wrapper calls start_new_file.
processor_add_old_chunk(s, chunk) == add_old_chunk(s, chunk)
processor_add_new_chunk(s, chunk) == add_new_chunk(s, chunk)
processor_finalize(s) == finalize(s)
processor_get_intermediate_result(s) == get_intermediate_result(s)

ProcessorAddOldChunk ==
    \E chunk \in Chunks :
        Call("add_old_chunk", processor_add_old_chunk(Session, chunk))

ProcessorAddNewChunk ==
    \E chunk \in Chunks :
        Call("add_new_chunk", processor_add_new_chunk(Session, chunk))

ProcessorFinalize == Call("finalize", processor_finalize(Session))

ProcessorGetIntermediateResult ==
    Call("get_intermediate_result",
         [res |-> Ok(processor_get_intermediate_result(Session)), s |-> Session])

NextProcessor ==
    \/ ProcessorAddOldChunk
    \/ ProcessorAddNewChunk
    \/ ProcessorFinalize
    \/ ProcessorGetIntermediateResult

SpecProcessor == InitSession /\ [][NextProcessor]_vars

\* ------------------------------------------------------------ properties
\* The DiffResult a caller holds: the one compute_diff returned, or the one
\* the session's finalize returned.
ReturnedResults ==
    (IF pc = "done" /\ out.tag = "Ok" THEN {out.value} ELSE {})
    \cup (IF ret.op = "finalize" /\ ret.res.tag = "Ok" THEN {ret.res.value} ELSE {})

\* the change records of a hunk list in hunk and record order
RECURSIVE AllChanges(_)
AllChanges(hunks) ==
    IF hunks = <<>> THEN <<>> ELSE hunks[1].changes \o AllChanges(Tail(hunks))

\* the line numbers of one side, of the records that have one
OldNumbers(changes) ==
    LET present == SelectSeq(changes, LAMBDA c : IsSome(c.old_line_number))
    IN  [i \in 1..Len(present) |-> present[i].old_line_number[1]]

NewNumbers(changes) ==
    LET present == SelectSeq(changes, LAMBDA c : IsSome(c.new_line_number))
    IN  [i \in 1..Len(present) |-> present[i].new_line_number[1]]

StrictlyIncreasing(seq) == \A i \in 1..(Len(seq) - 1) : seq[i] < seq[i + 1]

\* the result of applying an edit list to A: Unchanged keeps A[old_index],
\* Removed drops it, Added inserts B[new_index], Modified puts B[new_index]
\* in the place of A[old_index]
RECURSIVE ApplyEdits(_, _, _)
ApplyEdits(A, B, changes) ==
    IF changes = <<>> THEN <<>>
    ELSE (IF changes[1][1] = Removed THEN <<>>
          ELSE IF changes[1][1] = Unchanged THEN <<GetOr(A, changes[1][2])>>
          ELSE <<GetOr(B, changes[1][3])>>)
         \o ApplyEdits(A, B, Tail(changes))

\* C1: for all line sequences A and B, MyersDiff::compute_diff returns an
\* edit list, and that list applied in order to A reconstructs B exactly.
C1_EditListReconstructsB ==
    pc = "done" =>
        /\ ~out.result.panic
        /\ ApplyEdits(arg.old_lines, arg.new_lines, out.result.changes)
               = arg.new_lines

\* C2: for every text X within the size cap, compute_diff(X, X, options with
\* the default context_lines) returns Ok with no hunk and similarity 1.
C2_SameTextNoHunks ==
    (/\ pc = "done"
     /\ arg.old_text = arg.new_text
     /\ arg.options.context_lines = DefaultContextLines
     /\ Len(arg.old_text) <= arg.options.max_file_size)
    => (/\ out.tag = "Ok"
        /\ out.value.hunks = <<>>
        /\ out.value.stats.similarity = Fraction(1, 1))

\* C3: in every DiffResult returned by compute_diff or by finalize, the
\* old_line_number values of the records that have one are strictly
\* increasing in hunk and record order, and so are the new_line_number values.
C3_LineNumbersIncrease ==
    \A r \in ReturnedResults :
        /\ StrictlyIncreasing(OldNumbers(AllChanges(r.hunks)))
        /\ StrictlyIncreasing(NewNumbers(AllChanges(r.hunks)))

\* finalize returned the hunks of two windows, the later one rebased
C3_TwoWindowsReturned ==
    /\ ret.op = "finalize"
    /\ ret.res.tag = "Ok"
    /\ Len(ret.res.value.hunks) >= 2
    /\ ret.res.value.hunks[2].new_start > 1
    /\ Len(NewNumbers(AllChanges(ret.res.value.hunks))) >= 2

\* C4: for every hunk of a compute_diff result, old_lines is the number of
\* its records with an old_line_number and new_lines the number of its
\* records with a new_line_number.
C4_HunkLineCounts ==
    (pc = "done" /\ out.tag = "Ok") =>
        \A h \in 1..Len(out.value.hunks) :
            /\ out.value.hunks[h].old_lines
                   = Len(OldNumbers(out.value.hunks[h].changes))
            /\ out.value.hunks[h].new_lines
                   = Len(NewNumbers(out.value.hunks[h].changes))

\* C5: for every hunk of a returned DiffResult (compute_diff's, or finalize's
\* after rebasing), header is "@@ -os,ol +ns,nl @@" of the hunk's own
\* old_start, old_lines, new_start and new_lines.
C5_HeaderMatchesFields ==
    \A r \in ReturnedResults :
        \A h \in 1..Len(r.hunks) :
            r.hunks[h].header
                = FormatHeader(r.hunks[h].old_start, r.hunks[h].old_lines,
                               r.hunks[h].new_start, r.hunks[h].new_lines)

\* the positions in an edit stream of its edits that are not Unchanged
ChangePositions(stream) ==
    SelectSeq([i \in 1..Len(stream) |-> i], LAMBDA i : stream[i][1] # Unchanged)

\* the Unchanged edits that stand right before, and right after, position p
RECURSIVE UnchangedBefore(_, _)
UnchangedBefore(stream, p) ==
    IF p > 1 /\ stream[p - 1][1] = Unchanged
    THEN 1 + UnchangedBefore(stream, p - 1) ELSE 0

RECURSIVE UnchangedAfter(_, _)
UnchangedAfter(stream, p) ==
    IF p < Len(stream) /\ stream[p + 1][1] = Unchanged
    THEN 1 + UnchangedAfter(stream, p + 1) ELSE 0

\* the Unchanged records a change list starts with
RECURSIVE LeadingUnchanged(_)
LeadingUnchanged(changes) ==
    IF changes # <<>> /\ changes[1].change_type = Unchanged
    THEN 1 + LeadingUnchanged(Tail(changes)) ELSE 0

\* the records of a change list that are not Unchanged
EditRecords(changes) == SelectSeq(changes, LAMBDA c : c.change_type # Unchanged)

\* C6: with context_lines = K, a hunk's change list starts with the Unchanged
\* records that stand before its first change in the edit stream, up to K of
\* them, and ends with those after its last change, up to K of them.
C6_ContextCarried ==
    pc = "done" =>
        LET stream == StreamFrom(arg.tags, 1, 0, 0)
            pos == ChangePositions(stream)
        IN  \A h \in 1..Len(out) :
                LET before == Len(EditRecords(AllChanges(SubSeq(out, 1, h - 1))))
                    last == before + Len(EditRecords(out[h].changes))
                IN  (last > before /\ last <= Len(pos)) =>
                        /\ LeadingUnchanged(out[h].changes)
                               = Min(arg.context_lines,
                                     UnchangedBefore(stream, pos[before + 1]))
                        /\ LeadingUnchanged(Reverse(out[h].changes))
                               = Min(arg.context_lines,
                                     UnchangedAfter(stream, pos[last]))

\* C7: for all inputs within the size cap compute_diff returns statistics
\* with added_lines + removed_lines + modified_lines <= max(|A|, |B|), the
\* line counts of the two texts.
C7_ChangedLinesAtMostLongerSide ==
    (/\ pc = "done"
     /\ Len(arg.old_text) <= arg.options.max_file_size
     /\ Len(arg.new_text) <= arg.options.max_file_size)
    => (/\ out.tag = "Ok"
        /\ out.value.stats.added_lines + out.value.stats.removed_lines
               + out.value.stats.modified_lines
           <= Max(Len(Lines(arg.old_text)), Len(Lines(arg.new_text))))

\* every DiffResult with statistics a caller holds: a returned one, or the
\* one get_intermediate_result gave
ResultsWithStats ==
    ReturnedResults
    \cup (IF ret.op = "get_intermediate_result" THEN {ret.res.value} ELSE {})

C9_OutOfStateCallsFail ==
    [][/\ (ret'.op \in {"add_old_chunk", "start_new_file"}
           /\ state # "ReceivingOld")
          => (/\ ret'.res.tag = "Err"
              /\ ret'.res.err = "InvalidState"
              /\ UNCHANGED sessionVars)
       /\ (ret'.op = "add_new_chunk" /\ state # "ReceivingNew")
          => (/\ ret'.res.tag = "Err"
              /\ ret'.res.err = "InvalidState"
              /\ UNCHANGED sessionVars)]_vars

\* add_old_chunk was refused after start_new_file, with lines in both buffers
C9_RefusedOutOfState ==
    /\ ret.op = "add_old_chunk"
    /\ ret.res = Err("InvalidState")
    /\ state = "ReceivingNew"
    /\ old_buffer.lines # <<>>
    /\ new_buffer.lines # <<>>

\* C10: finalize called in ReceivingOld fails with InvalidState and the
\* session stays in ReceivingOld.
C10_FinalizeRefusedInReceivingOld ==
    [][(ret'.op = "finalize" /\ state = "ReceivingOld")
       => (/\ ret'.res.tag = "Err"
           /\ ret'.res.err = "InvalidState"
           /\ state' = "ReceivingOld")]_vars

\* the place of a state in ReceivingOld -> ReceivingNew -> Finalized
StateRank(st) ==
    CASE st = "ReceivingOld" -> 0
      [] st = "ReceivingNew" -> 1
      [] st = "Finalized" -> 2

\* C11: over the calls on one session the state never moves backward;
\* finalize returns Ok only from a state that is not Finalized and leaves
\* Finalized behind (so it returns Ok at most once); in Finalized every
\* add_old_chunk, start_new_file, add_new_chunk and finalize fails with
\* InvalidState and the state stays Finalized.
C11_StateMovesForward ==
    [][/\ StateRank(state') >= StateRank(state)
       /\ (ret'.op = "finalize" /\ ret'.res.tag = "Ok")
          => (state # "Finalized" /\ state' = "Finalized")
       /\ (state = "Finalized"
           /\ ret'.op \in {"add_old_chunk", "start_new_file",
                           "add_new_chunk", "finalize"})
          => (/\ ret'.res.tag = "Err"
              /\ ret'.res.err = "InvalidState"
              /\ state' = "Finalized")]_vars

\* a second finalize was refused
C11_SecondFinalizeRefused ==
    /\ state = "Finalized"
    /\ ret.op = "finalize"
    /\ ret.res = Err("InvalidState")

\* a call that succeeded, or was refused only for the byte cap
OkOrOverflow(res) ==
    res.tag = "Ok" \/ (res.tag = "Err" /\ res.err = "BufferOverflow")

\* C12: through StreamingDiffProcessor, a session that calls add_old_chunk
\* one or more times, then add_new_chunk one or more times, then finalize
\* succeeds at every call (a chunk over the byte cap apart).
C12_ProcessorSequenceSucceeds ==
    [][/\ (ret.op \in {"new", "add_old_chunk"} /\ ret.res.tag = "Ok"
           /\ ret'.op = "add_old_chunk")
          => OkOrOverflow(ret'.res)
       /\ (ret.op \in {"add_old_chunk", "add_new_chunk"} /\ ret.res.tag = "Ok"
           /\ ret'.op = "add_new_chunk")
          => OkOrOverflow(ret'.res)
       /\ (ret.op = "add_new_chunk" /\ ret.res.tag = "Ok"
           /\ ret'.op = "finalize")
          => ret'.res.tag = "Ok"]_vars

\* C13: when no window was processed before finalize, finalize on the
\* streamed texts returns the hunks and the statistics that compute_diff
\* returns on the whole texts with the same options.
C13_StreamedEqualsWhole ==
    [][(/\ pc = "feed_new"
        /\ pc' = "fed"
        /\ processed_old_lines = 0
        /\ processed_new_lines = 0
        /\ current_hunks = <<>>
        /\ compute_diff(arg.old_text, arg.new_text, arg.options).tag = "Ok")
       => (/\ ret'.res.tag = "Ok"
           /\ ret'.res.value.hunks
                  = compute_diff(arg.old_text, arg.new_text, arg.options).value.hunks
           /\ ret'.res.value.stats
                  = compute_diff(arg.old_text, arg.new_text, arg.options).value.stats)]_vars

\* the outcome r of adding a chunk to the side that has counted `counted`
\* bytes: BufferOverflow exactly over the cap, and then the session s is kept
OverflowOnlyOverCap(r, s, counted, chunk) ==
    /\ (r.res.tag = "Err" /\ r.res.err = "BufferOverflow")
           <=> (counted + Len(chunk) > s.options.max_file_size \div 2)
    /\ (r.res.tag = "Err" /\ r.res.err = "BufferOverflow") => r.s = s

\* C14: in the state that accepts them, add_old_chunk / add_new_chunk fail
\* with BufferOverflow exactly when the bytes counted for that side plus the
\* chunk's bytes exceed max_file_size / 2, and the call that fails so leaves
\* the buffers, the state, the counters and the hunks as they were: checked
\* for every chunk in every state a session reaches.
C14_OverflowExactlyOverCap ==
    (pc = "session" /\ ~crashed) =>
        /\ state = "ReceivingOld"
           => \A chunk \in Chunks :
                  OverflowOnlyOverCap(add_old_chunk(Session, chunk), Session,
                                      old_buffer.total_size, chunk)
        /\ state = "ReceivingNew"
           => \A chunk \in Chunks :
                  OverflowOnlyOverCap(add_new_chunk(Session, chunk), Session,
                                      new_buffer.total_size, chunk)

\* add_old_chunk was refused for the cap while lines were buffered
C14_ChunkRefusedOverCap ==
    /\ ret.op = "add_old_chunk"
    /\ ret.res = Err("BufferOverflow")
    /\ old_buffer.lines # <<>>
    /\ old_buffer.total_size > 0

\* C15: when finalize returns Ok, both line buffers are empty afterwards and
\* every line that was buffered has gone through the window finalize ran:
\* the processed counters advance by exactly the buffered line counts,
\* however many lines (more than ChunkSize included) were buffered.  Stated
\* for finalize called in ReceivingNew, after start_new_file.
C15_FinalizeDrainsBuffers ==
    [][(state = "ReceivingNew" /\ ret'.op = "finalize" /\ ret'.res.tag = "Ok")
          => /\ old_buffer'.lines = <<>>
             /\ new_buffer'.lines = <<>>
             /\ processed_old_lines' = processed_old_lines + Len(old_buffer.lines)
             /\ processed_new_lines' = processed_new_lines + Len(new_buffer.lines)]_vars

\* C16: get_intermediate_result is served in every state, returns a result
\* (never an error, never a panic) whose hunks are exactly the hunks
\* accumulated so far and whose is_large_file is true, and leaves the state,
\* both buffers, both counters and the accumulated hunks as they were.
C16_IntermediateResultIsSnapshot ==
    [][(ret'.op = "get_intermediate_result" /\ pc = "session")
          => /\ ret'.res.tag = "Ok"
             /\ ret'.res.value.hunks = current_hunks
             /\ ret'.res.value.is_large_file
             /\ UNCHANGED sessionVars
             /\ ~crashed']_vars

\* a snapshot taken between two windows: hunks are accumulated and the
\* session still receives the new text
C16_SnapshotWithHunks ==
    /\ ret.op = "get_intermediate_result"
    /\ ret.res.tag = "Ok"
    /\ ret.res.value.hunks # <<>>
    /\ state = "ReceivingNew"

\* the length of a longest common subsequence of A[i..] and B[j..]
RECURSIVE LcsFrom(_, _, _, _)
LcsFrom(A, B, i, j) ==
    IF i > Len(A) \/ j > Len(B) THEN 0
    ELSE IF A[i] = B[j] THEN 1 + LcsFrom(A, B, i + 1, j + 1)
    ELSE Max(LcsFrom(A, B, i + 1, j), LcsFrom(A, B, i, j + 1))

\* the number of edits of type t in an edit list
EditsOfType(changes, t) ==
    Cardinality({i \in 1..Len(changes) : changes[i][1] = t})

\* C17: for all A (N lines) and B (M lines) MyersDiff::compute_diff returns an
\* edit script that is minimal: counted before coalescing (a Modified edit
\* stands for one Removed and one Added), Added plus Removed edits number
\* N + M - 2 * LCS(A, B) and Unchanged edits number LCS(A, B).
C17_ScriptIsMinimal ==
    pc = "done" =>
        /\ ~out.result.panic
        /\ EditsOfType(out.result.changes, Added)
               + EditsOfType(out.result.changes, Removed)
               + 2 * EditsOfType(out.result.changes, Modified)
             = Len(arg.old_lines) + Len(arg.new_lines)
               - 2 * LcsFrom(arg.old_lines, arg.new_lines, 1, 1)
        /\ EditsOfType(out.result.changes, Unchanged)
             = LcsFrom(arg.old_lines, arg.new_lines, 1, 1)

\* C18: compute_diff on the lines a, b, c against a, x, c with the default
\* options returns exactly one hunk holding exactly one record, a Modified
\* record with old line number 2 and new line number 2, and statistics with
\* added_lines = 0, removed_lines = 0, modified_lines = 1.
C18_MiddleLineModified ==
    (/\ pc = "done"
     /\ arg.old_text = MixedOld
     /\ arg.new_text = MixedNew
     /\ arg.options.context_lines = DefaultContextLines
     /\ arg.options.max_file_size = MaxFileSize)
    => (/\ out.tag = "Ok"
        /\ Len(out.value.hunks) = 1
        /\ Len(out.value.hunks[1].changes) = 1
        /\ out.value.hunks[1].changes[1].change_type = Modified
        /\ out.value.hunks[1].changes[1].old_line_number = Some(2)
        /\ out.value.hunks[1].changes[1].new_line_number = Some(2)
        /\ out.value.stats.added_lines = 0
        /\ out.value.stats.removed_lines = 0
        /\ out.value.stats.modified_lines = 1)

\* an edit script of n edits of type t, the k-th on line index k - 1 of the
\* side it belongs to
ScriptOfOneType(r, t, n) ==
    /\ ~r.panic
    /\ Len(r.changes) = n
    /\ \A i \in 1..n :
           /\ r.changes[i][1] = t
           /\ t = Added => r.changes[i][3] = i - 1
           /\ t = Removed => r.changes[i][2] = i - 1

\* a result reporting n lines of type t: no hunk for n = 0, else one hunk of n
\* records of type t on lines 1..n, counted in the statistics, similarity 0
ReportsOneType(res, t, n) ==
    /\ res.tag = "Ok"
    /\ n = 0 => res.value.hunks = <<>>
    /\ n > 0 =>
           /\ Len(res.value.hunks) = 1
           /\ Len(res.value.hunks[1].changes) = n
           /\ \A i \in 1..n :
                  /\ res.value.hunks[1].changes[i].change_type = t
                  /\ t = Added
                     => res.value.hunks[1].changes[i].new_line_number = Some(i)
                  /\ t = Removed
                     => res.value.hunks[1].changes[i].old_line_number = Some(i)
           /\ res.value.stats.added_lines = (IF t = Added THEN n ELSE 0)
           /\ res.value.stats.removed_lines = (IF t = Removed THEN n ELSE 0)
           /\ res.value.stats.modified_lines = 0
           /\ res.value.stats.similarity = Fraction(0, 1)

\* C19: when the old side has no line MyersDiff::compute_diff returns exactly
\* M Added edits with new indices 0..M-1 (none when both sides are empty),
\* when only the new side has no line exactly N Removed edits with old
\* indices 0..N-1; compute_diff reports them as a single hunk of M Added (or
\* N Removed) records with added_lines = M (removed_lines = N) and
\* similarity 0.
C19_EmptySideAllAddedOrRemoved ==
    (/\ pc = "done"
     /\ Len(arg.old_text) <= arg.options.max_file_size
     /\ Len(arg.new_text) <= arg.options.max_file_size)
    => /\ arg.old_text = <<>>
          => /\ ScriptOfOneType(MyersComputeDiff(<<>>, Lines(arg.new_text)),
                                Added, Len(Lines(arg.new_text)))
             /\ ReportsOneType(out, Added, Len(Lines(arg.new_text)))
       /\ (arg.new_text = <<>> /\ arg.old_text # <<>>)
          => /\ ScriptOfOneType(MyersComputeDiff(Lines(arg.old_text), <<>>),
                                Removed, Len(Lines(arg.old_text)))
             /\ ReportsOneType(out, Removed, Len(Lines(arg.old_text)))

\* compute_diff returned for an empty old text and a new text of two lines:
\* one hunk, two Added records
C19_TwoLinesAdded ==
    /\ pc = "done"
    /\ arg.old_text = <<>>
    /\ Len(Lines(arg.new_text)) = 2
    /\ out.tag = "Ok"
    /\ Len(out.value.hunks) = 1
    /\ out.value.stats.added_lines = 2

\* the Levenshtein distance of s1[i..] and s2[j..]: characters, unit costs
RECURSIVE EditDistance(_, _, _, _)
EditDistance(s1, s2, i, j) ==
    IF i > Len(s1) THEN Len(s2) - j + 1
    ELSE IF j > Len(s2) THEN Len(s1) - i + 1
    ELSE IF s1[i] = s2[j] THEN EditDistance(s1, s2, i + 1, j + 1)
    ELSE 1 + Min(EditDistance(s1, s2, i + 1, j + 1),
                 Min(EditDistance(s1, s2, i + 1, j),
                     EditDistance(s1, s2, i, j + 1)))

\* both lines empty, or twice the distance below the longer length
SimilarLines(s1, s2) ==
    \/ (s1 = <<>> /\ s2 = <<>>)
    \/ 2 * EditDistance(s1, s2, 1, 1) < Max(ByteLen(s1), ByteLen(s2))

\* the edit list with, from position i on, every Removed that is directly
\* followed by an Added on a similar line replaced by one Modified
RECURSIVE CoalescedFrom(_, _, _, _)
CoalescedFrom(A, B, changes, i) ==
    IF i > Len(changes) THEN <<>>
    ELSE IF /\ i < Len(changes)
            /\ changes[i][1] = Removed
            /\ changes[i + 1][1] = Added
            /\ SimilarLines(A[changes[i][2] + 1], B[changes[i + 1][3] + 1])
    THEN <<<<Modified, changes[i][2], changes[i + 1][3]>>>>
         \o CoalescedFrom(A, B, changes, i + 2)
    ELSE <<changes[i]>> \o CoalescedFrom(A, B, changes, i + 1)

\* C20: detect_modifications replaces a Removed on line i directly followed
\* by an Added on line j by Modified(i, j) exactly when both lines are empty
\* or twice their Levenshtein distance is below the longer length; every
\* other edit passes through unchanged and in order, and no Removed directly
\* followed by an Added on a similar line is left in the output.
C20_CoalescesExactlySimilarPairs ==
    pc = "done" =>
        /\ out = CoalescedFrom(arg.old_lines, arg.new_lines,
                               StreamFrom(arg.tags, 1, 0, 0), 1)
        /\ \A i \in 1..(Len(out) - 1) :
               (out[i][1] = Removed /\ out[i + 1][1] = Added)
               => ~SimilarLines(arg.old_lines[out[i][2] + 1],
                                arg.new_lines[out[i + 1][3] + 1])

\* the number of edit records in the first h hunks
EditsThrough(hunks, h) == Len(EditRecords(AllChanges(SubSeq(hunks, 1, h))))

\* the hunk that holds the k-th edit record
HunkOfEdit(hunks, k) ==
    CHOOSE h \in 1..Len(hunks) :
        EditsThrough(hunks, h - 1) < k /\ k <= EditsThrough(hunks, h)

\* record rec reports the edit e of the stream
RecordOfEdit(rec, e) ==
    /\ rec.change_type = e[1]
    /\ rec.old_line_number = (IF e[1] # Added THEN Some(e[2] + 1) ELSE None)
    /\ rec.new_line_number = (IF e[1] # Removed THEN Some(e[3] + 1) ELSE None)

\* the hunks partition the edits at positions pos of the stream, with
\* context_lines = K
HunksPartition(hunks, stream, pos, K) ==
    /\ Len(EditRecords(AllChanges(hunks))) = Len(pos)
    /\ \A k \in 1..Len(pos) :
           RecordOfEdit(EditRecords(AllChanges(hunks))[k], stream[pos[k]])
    /\ \A k \in 1..(Len(pos) - 1) :
           (HunkOfEdit(hunks, k) = HunkOfEdit(hunks, k + 1))
           <=> (pos[k + 1] - pos[k] - 1 <= 2 * K)
    /\ \A h \in 1..Len(hunks) : EditRecords(hunks[h].changes) # <<>>
    /\ pos = <<>> => hunks = <<>>

\* C21: create_hunks partitions the non-Unchanged edits of the stream into
\* hunks in stream order: every such edit is reported by exactly one record
\* of exactly one hunk, two consecutive ones share a hunk if and only if at
\* most 2 * context_lines Unchanged edits lie between them, no hunk is
\* without an edit, a stream without such an edit gives no hunk, and the
\* hunk open at the end of the stream is emitted.
C21_HunksPartitionEdits ==
    pc = "done" =>
        HunksPartition(out, StreamFrom(arg.tags, 1, 0, 0),
                       ChangePositions(StreamFrom(arg.tags, 1, 0, 0)),
                       arg.context_lines)

\* two edits three Unchanged edits apart with context_lines = 1: two hunks
C21_SplitAfterTwiceContext ==
    /\ pc = "done"
    /\ arg.context_lines = 1
    /\ Len(arg.tags) = 5
    /\ arg.tags[1] # Unchanged
    /\ arg.tags[5] # Unchanged
    /\ \A i \in 2..4 : arg.tags[i] = Unchanged
    /\ Len(out) = 2

\* the forward search of shortest_edit_script on A and B
ForwardSearch(A, B) ==
    ForD(A, B, 0, [i \in 0..(2 * (Len(A) + Len(B))) |-> 0], <<>>)

\* C22: for all non-empty A (N lines) and B (M lines) MyersDiff::compute_diff
\* terminates: the forward search reaches the end of both sides at some
\* d <= N + M, without an index out of bounds, and backtracking and
\* ses_to_changes finish, returning at most N + M edits.
C22_MyersTerminates ==
    (pc = "done" /\ arg.old_lines # <<>> /\ arg.new_lines # <<>>)
    => /\ ForwardSearch(arg.old_lines, arg.new_lines).found
       /\ ~ForwardSearch(arg.old_lines, arg.new_lines).oob
       /\ ~out.ses.oob
       /\ ~out.result.panic
       /\ Len(out.result.changes) <= Len(arg.old_lines) + Len(arg.new_lines)

\* the predecessor rule read at step d from the vector the forward pass held
\* (the trace entry of step d - 1; the first vector at d = 0) and from the
\* trace entry of step d, for every diagonal k of step d
SamePredecessor(trace, d, nm) ==
    \A k \in -d..d :
        (((k + d) % 2 = 0) /\ PredReadsInBounds(k, d, trace[d + 1][2], k + nm))
        => (BacktrackTakesInsertion(k, d, trace[d + 1][2], k + nm)
            <=> ForwardTakesInsertion(k, d,
                                      IF d = 0 THEN [i \in 0..(2 * nm) |-> 0]
                                      ELSE trace[d][2],
                                      k + nm))

\* C23: the forward search and the backtracking take the insertion
\* predecessor k + 1 only when k = -d, or k # d and V[k-1] < V[k+1], and the
\* deletion predecessor on a tie; backtracking at step d takes the
\* predecessor the forward pass took; so of two scripts of equal cost the one
\* with the removal first is returned: one line replaced by a different one
\* gives Removed then Added.
C23_RemovalBeforeInsertion ==
    (pc = "done" /\ arg.old_lines # <<>> /\ arg.new_lines # <<>>)
    => /\ \A d \in 0..(Len(ForwardSearch(arg.old_lines, arg.new_lines).trace) - 1) :
              SamePredecessor(ForwardSearch(arg.old_lines, arg.new_lines).trace, d,
                              Len(arg.old_lines) + Len(arg.new_lines))
       /\ (/\ Len(arg.old_lines) = 1
           /\ Len(arg.new_lines) = 1
           /\ arg.old_lines[1] # arg.new_lines[1])
          => /\ ~out.result.panic
             /\ out.result.changes = <<<<Removed, 0, 0>>, <<Added, 1, 0>>>>

\* C24: however the old text is cut into chunks, the old buffer holds after
\* the chunks fed so far the lines that adding the fed part as one chunk to
\* an empty buffer leaves: that part split on "\n", the last piece being the
\* pending (possibly empty) last line.
C24_ChunkingLeavesSameLines ==
    (pc = "feed_old" /\ out.old_fed > 0 /\ ret.res.tag = "Ok")
    => /\ old_buffer.lines
            = ChunkIntoLines(<<>>, SubSeq(arg.old_text, 1, out.old_fed))
       /\ old_buffer.lines = SplitFrom(arg.old_text, 1, out.old_fed)

\* the bytes a buffer holds: its lines and the line endings between them
BufferedBytes(buf) == Len(Join(buf.lines))

\* a buffer holds more than LineTrigger lines or more than half of its cap
FilledPastTrigger(buf) ==
    \/ Len(buf.lines) > LineTrigger
    \/ BufferedBytes(buf) > buf.max_size \div 2

\* r is the outcome of a window processed on session s1: the first
\* min(ChunkSize, buffered) lines of each buffer are taken
WindowProcessed(r, s1) ==
    /\ r = process_available_chunks(s1)
    /\ r.res.tag = "Ok"
       => /\ r.s.old_buffer.lines
               = SubSeq(s1.old_buffer.lines,
                        Min(ChunkSize, Len(s1.old_buffer.lines)) + 1,
                        Len(s1.old_buffer.lines))
          /\ r.s.new_buffer.lines
               = SubSeq(s1.new_buffer.lines,
                        Min(ChunkSize, Len(s1.new_buffer.lines)) + 1,
                        Len(s1.new_buffer.lines))

\* add_new_chunk of an accepted chunk: s1 is the session with the chunk
\* buffered, r the outcome of the call
WindowExactlyWhenFilled(r, s1) ==
    IF FilledPastTrigger(s1.old_buffer) \/ FilledPastTrigger(s1.new_buffer)
    THEN WindowProcessed(r, s1)
    ELSE r = [res |-> Ok(Unit), s |-> s1]

\* C25: add_new_chunk processes a window exactly when, with the chunk
\* buffered, a buffer holds more than 1000 lines or more than half of its
\* byte cap, and the window takes the first min(1000, buffered) lines of each
\* buffer; add_old_chunk changes nothing but the old buffer and
\* start_new_file nothing but the state: they process no window.
C25_WindowExactlyWhenFilled ==
    (pc = "session" /\ ~crashed) =>
        /\ state = "ReceivingNew"
           => \A chunk \in Chunks :
                  LineBufferAddChunk(new_buffer, chunk).res.tag = "Ok"
                  => WindowExactlyWhenFilled(
                         add_new_chunk(Session, chunk),
                         [Session EXCEPT !.new_buffer =
                              LineBufferAddChunk(new_buffer, chunk).buf])
        /\ \A chunk \in Chunks :
               add_old_chunk(Session, chunk).s
                   = [Session EXCEPT !.old_buffer =
                          add_old_chunk(Session, chunk).s.old_buffer]
        /\ start_new_file(Session).s
               = [Session EXCEPT !.state = start_new_file(Session).s.state]

\* line number n2 is line number n1 moved by base, when there is one
NumberMovedBy(n2, n1, base) ==
    IF n1 = None THEN n2 = None ELSE n2 = Some(n1[1] + base)

\* hunk h2 is the window's hunk h1 with its old side moved by old_base and
\* its new side by new_base
HunkMovedBy(h2, h1, old_base, new_base) ==
    /\ h2.old_start = h1.old_start + old_base
    /\ h2.new_start = h1.new_start + new_base
    /\ Len(h2.changes) = Len(h1.changes)
    /\ \A j \in 1..Len(h1.changes) :
           /\ h2.changes[j].change_type = h1.changes[j].change_type
           /\ h2.changes[j].content = h1.changes[j].content
           /\ NumberMovedBy(h2.changes[j].old_line_number,
                            h1.changes[j].old_line_number, old_base)
           /\ NumberMovedBy(h2.changes[j].new_line_number,
                            h1.changes[j].new_line_number, new_base)

\* buffer b2 is buffer b1 without its first taken lines
HeadRemoved(b2, b1, taken) ==
    b2.lines = SubSeq(b1.lines, taken + 1, Len(b1.lines))

\* r is the outcome of a window on session s whose diff is w: taken_old and
\* taken_new lines are taken
WindowAppended(r, s, w, taken_old, taken_new) ==
    (r.res.tag = "Ok") =>
        /\ w.tag = "Ok"
        /\ Len(r.s.current_hunks) = Len(s.current_hunks) + Len(w.value.hunks)
        /\ SubSeq(r.s.current_hunks, 1, Len(s.current_hunks)) = s.current_hunks
        /\ \A i \in 1..Len(w.value.hunks) :
               HunkMovedBy(r.s.current_hunks[Len(s.current_hunks) + i],
                           w.value.hunks[i],
                           s.processed_old_lines, s.processed_new_lines)
        /\ r.s.processed_old_lines = s.processed_old_lines + taken_old
        /\ r.s.processed_new_lines = s.processed_new_lines + taken_new
        /\ HeadRemoved(r.s.old_buffer, s.old_buffer, taken_old)
        /\ HeadRemoved(r.s.new_buffer, s.new_buffer, taken_new)

\* a window processed on session s
WindowOn(s) ==
    WindowAppended(process_available_chunks(s), s,
                   compute_diff(Join(GetLines(s.old_buffer, ChunkSize)),
                                Join(GetLines(s.new_buffer, ChunkSize)),
                                s.options),
                   Min(ChunkSize, Len(s.old_buffer.lines)),
                   Min(ChunkSize, Len(s.new_buffer.lines)))

\* C26: a window's hunks are appended to current_hunks with old_start and
\* every present old_line_number increased by processed_old_lines as it was
\* at the start of the window, new_start and every present new_line_number
\* by processed_new_lines; the counters grow by the number of lines taken
\* from each buffer, those lines are removed from the head of each buffer,
\* and the hunks accumulated before stay as they were.  Stated for the
\* window finalize runs on the session and for the window add_new_chunk runs
\* once a chunk is buffered.
C26_WindowRebasedAndDrained ==
    (pc = "session" /\ ~crashed /\ state # "Finalized") =>
        /\ WindowOn(Session)
        /\ \A chunk \in Chunks :
               WindowOn([Session EXCEPT !.new_buffer =
                             LineBufferAddChunk(new_buffer, chunk).buf])

\* add_new_chunk processed a second window: its hunk starts after the line
\* the first window took
C26_SecondWindowMoved ==
    /\ pc = "session"
    /\ state = "ReceivingNew"
    /\ ret.op = "add_new_chunk"
    /\ ret.res.tag = "Ok"
    /\ Len(current_hunks) = 2
    /\ current_hunks[1].new_start = 1
    /\ current_hunks[2].new_start > 1
    /\ new_buffer.lines = <<>>

\* the records of a hunk that are an addition, a deletion, or (counted for
\* both) a modification
AddsAndDels(hunk) ==
    Cardinality({i \in 1..Len(hunk.changes) : hunk.changes[i].change_type = Added})
    + Cardinality({i \in 1..Len(hunk.changes) : hunk.changes[i].change_type = Removed})
    + 2 * Cardinality({i \in 1..Len(hunk.changes) : hunk.changes[i].change_type = Modified})

\* insights ins describe the hunk list: one intensity per hunk with records,
\* in hunk order, (adds + dels) / records, between 0 and most
IntensityPerHunk(ins, hunks, measured, most) ==
    /\ ins.hunks = Len(hunks)
    /\ Len(ins.change_intensity) = Len(measured)
    /\ \A i \in 1..Len(measured) :
           /\ ins.change_intensity[i].num * Len(measured[i].changes)
                  = AddsAndDels(measured[i]) * ins.change_intensity[i].den
           /\ 0 <= ins.change_intensity[i].num
           /\ ins.change_intensity[i].num <= most * ins.change_intensity[i].den

MoreModifiedThanUnchanged(hunk) ==
    Cardinality({i \in 1..Len(hunk.changes) : hunk.changes[i].change_type = Modified})
    > Cardinality({i \in 1..Len(hunk.changes) : hunk.changes[i].change_type = Unchanged})

ExceedsOneWhenModifiedPrevail(values, measured) ==
    \A i \in 1..Len(measured) :
        (values[i].num > values[i].den) <=> MoreModifiedThanUnchanged(measured[i])

C28_UnchangedLinesAreMatches ==
    (/\ pc = "done"
     /\ Len(arg.old_text) <= arg.options.max_file_size
     /\ Len(arg.new_text) <= arg.options.max_file_size)
    => (/\ out.tag = "Ok"
        /\ out.value.stats.unchanged_lines
             = LcsFrom(Lines(arg.old_text), Lines(arg.new_text), 1, 1)
        /\ out.value.stats.total_lines
             = Max(Len(Lines(arg.old_text)), Len(Lines(arg.new_text))))

\* the size a buffer counts against its cap is covered by the bytes it holds
CountedIsBuffered(buf) == buf.total_size <= BufferedBytes(buf)

\* a chunk that fits beside the bytes the new buffer holds is not refused
FittingChunkAccepted(s, chunk) ==
    (/\ s.state = "ReceivingNew"
     /\ BufferedBytes(s.new_buffer) + Len(chunk) <= s.new_buffer.max_size)
    => add_new_chunk(s, chunk).res # Err("BufferOverflow")

\* C29: draining a window releases its bytes from the cap accounting: the
\* counted size of a buffer is the bytes it still holds, so a chunk is
\* accepted whenever the bytes held with it stay within the cap, however
\* many bytes the side has been fed, and with both buffers drained the
\* trigger of a window does not fire.
C29_DrainReleasesBytes ==
    pc = "session" =>
        /\ CountedIsBuffered(old_buffer)
        /\ CountedIsBuffered(new_buffer)
        /\ \A chunk \in Chunks : FittingChunkAccepted(Session, chunk)
        /\ (old_buffer.lines = <<>> /\ new_buffer.lines = <<>>)
              => ~should_process_chunk(Session)

\* a snake move lies inside the edit graph of n old and m new lines
MoveInGraph(mv, n, m) ==
    /\ mv.kind \in {"Diagonal", "Down"} => (0 <= mv.x /\ mv.x < n)
    /\ mv.kind \in {"Diagonal", "Right"} => (0 <= mv.y /\ mv.y < m)

\* the Down and Right moves of a script
EditMoves(moves) == {i \in 1..Len(moves) : moves[i].kind # "Diagonal"}

\* C30: every move backtrack_ses emits lies inside the edit graph (x < N
\* for Diagonal and Down, y < M for Diagonal and Right, no negative
\* coordinate converted to an unsigned index); the step d = 0 emits only
\* Diagonal moves, so the script holds one Down or Right move for each step
\* d >= 1 of the trace; every access to V and to the trace is in bounds.
C30_MovesInsideGraph ==
    (pc = "done" /\ arg.old_lines # <<>> /\ arg.new_lines # <<>>)
    => /\ ~out.ses.oob
       /\ \A i \in 1..Len(out.ses.moves) :
              MoveInGraph(out.ses.moves[i], Len(arg.old_lines), Len(arg.new_lines))
       /\ Cardinality(EditMoves(out.ses.moves))
            = Len(ForwardSearch(arg.old_lines, arg.new_lines).trace) - 1

====
